---- MODULE Spec2Model ----
(***************************************************************************)
(* Model of the Wikidata data layer (src/src/utils/wikidata.js): the       *)
(* SPARQL client querySPARQL with its mock-data fallback, the TTL cache    *)
(* querySPARQLWithCache over the process-wide queryCache object, and the   *)
(* retry wrapper queryWithRetry described by the specification.            *)
(*                                                                         *)
(* Strings that the program inspects are sequences of tokens (a token is a *)
(* character or an uninspected run of characters); String.includes is a    *)
(* search for a contiguous run of tokens.  Time is Date.now(), in          *)
(* milliseconds.  A JavaScript value is a record [type, items].            *)
(***************************************************************************)
EXTENDS Integers, Sequences, FiniteSets

\* ------------------------------------------------------------------ bounds
MaxNow == 60000          \* the clock stops advancing past this instant (ms)
MaxFetches == 2           \* network requests issued in one behaviour
MaxCalls == 2             \* querySPARQLWithCache calls that may overlap
MaxRetriesArg == 3        \* largest maxRetries passed to queryWithRetry
MaxMockFields == 1        \* fields of the gender mock data that are generated
MaxMockDecades == 1       \* decades of the gender mock data that are generated
MaxMockDiscoveries == 1   \* discoveries of the mock data that are generated

\* ------------------------------------------------------- program constants
MsPerMinute == 60000      \* (1000 * 60) in the cacheAge computation

\* ------------------------------------------------------------ JS values
Arr(s) == [type |-> "array", items |-> s]
Undefined == [type |-> "undefined", items |-> <<>>]

Digits == <<"0", "1", "2", "3", "4", "5", "6", "7", "8", "9">>

\* Number.prototype.toString for a natural number
RECURSIVE toString(_)
toString(n) ==
  IF n < 10 THEN <<Digits[n + 1]>>
  ELSE toString(n \div 10) \o <<Digits[(n % 10) + 1]>>

Min(a, b) == IF a < b THEN a ELSE b

\* The first n elements of a list (all of it when it is shorter)
Take(s, n) == SubSeq(s, 1, Min(n, Len(s)))

\* String.prototype.includes
Includes(s, needle) ==
  \E i \in 1..(Len(s) - Len(needle) + 1) :
    SubSeq(s, i, i + Len(needle) - 1) = needle

\* ------------------------------------------------------------ the inputs
\* Query texts: one mentioning gender, the same text with one more blank,
\* and one mentioning neither gender nor discovery.
QGender == <<"SELECT", " ", "gender">>
QGenderWs == <<"SELECT", " ", " ", "gender">>
QOther == <<"SELECT", " ", "x">>
Queries == {QGender, QGenderWs, QOther}

TTLs == {0, 1}                  \* cacheTimeMinutes arguments
TickSteps == {59999, 60000}        \* clock advances (ms)
\* Values of Math.random(), as fractions: 0 and 0.999.  One draw stands for
\* all the draws of one generation of mock data.
RandSamples == {[num |-> 0, den |-> 1], [num |-> 999, den |-> 1000]}

\* Math.floor(Math.random() * scale + offset)
FloorRandom(r, scale, offset) == ((r.num * scale) \div r.den) + offset
Calls == 1..MaxCalls

\* The bindings a successful response may carry
Row42 == [count |-> [value |-> <<"4", "2">>], id |-> [value |-> <<"Q", "5">>]]
ServerBindings == {<<Row42>>}

\* What the network may answer to one request.  settle: fetch() rejects
\* ("reject") or resolves with a Response ("response") whose body is still
\* to be read ("pending"); body: response.json() rejects ("unparsable"), or
\* parses to a value without .results ("no_results"), to one whose .results
\* has no .bindings ("no_bindings"), or to one with results.bindings
\* ("bindings").
NoResponse ==
  [settle |-> "none", ok |-> FALSE, status |-> 0, statusText |-> <<>>,
   body |-> "none", bindings |-> <<>>]
OkHead ==
  [NoResponse EXCEPT !.settle = "response", !.ok = TRUE, !.status = 200,
                     !.statusText = <<"OK">>, !.body = "pending"]
FailedHeads ==
  {[NoResponse EXCEPT !.settle = "reject"],
   [NoResponse EXCEPT !.settle = "response", !.status = 429,
                      !.statusText = <<"Too Many Requests">>],
   [NoResponse EXCEPT !.settle = "response", !.status = 500,
                      !.statusText = <<"Internal Server Error">>]}
Heads == FailedHeads \cup {OkHead}
Bodies ==
  {[shape |-> b, bindings |-> <<>>]
     : b \in {"unparsable", "no_results", "no_bindings"}}
  \cup {[shape |-> "bindings", bindings |-> bs] : bs \in ServerBindings}
WithBody(resp, b) == [resp EXCEPT !.body = b.shape, !.bindings = b.bindings]
\* The complete answers
Responses == FailedHeads \cup {WithBody(OkHead, b) : b \in Bodies}

\* ------------------------------------------------------------- mock data
EntityPrefix == <<"http://www.wikidata.org/entity/Q">>

\* `http://www.wikidata.org/entity/Q${Math.floor(Math.random() * 1000000)}`
RandomEntity(r) == EntityPrefix \o toString(FloorRandom(r, 1000000, 0))

mockFields ==
  Take(<<<<"astronomer">>, <<"physicist">>, <<"chemist">>, <<"programmer">>>>,
       MaxMockFields)
mockDecades == Take(<<1800, 1850, 1900, 1950, 2000>>, MaxMockDecades)

maleRow(field, decade, r) ==
  [field |-> [value |-> RandomEntity(r)],
   fieldLabel |-> [value |-> field],
   decade |-> [value |-> toString(decade)],
   gender |-> [value |-> EntityPrefix \o <<"6", "5", "8", "1", "0", "9", "7">>],
   genderLabel |-> [value |-> <<"male">>],
   count |-> [value |-> toString(FloorRandom(r, 100, 50))]]

femaleRow(field, decade, r) ==
  [field |-> [value |-> RandomEntity(r)],
   fieldLabel |-> [value |-> field],
   decade |-> [value |-> toString(decade)],
   gender |-> [value |-> EntityPrefix \o <<"6", "5", "8", "1", "0", "7", "2">>],
   genderLabel |-> [value |-> <<"female">>],
   count |-> [value |-> toString(FloorRandom(r, 50, 5))]]

\* fields.forEach(field => decades.forEach(decade => push male; push female))
generateGenderMockData(r) ==
  [i \in 1..(Len(mockFields) * Len(mockDecades) * 2) |->
     LET pair == (i - 1) \div 2
         field == mockFields[(pair \div Len(mockDecades)) + 1]
         decade == mockDecades[(pair % Len(mockDecades)) + 1]
     IN IF i % 2 = 1 THEN maleRow(field, decade, r)
        ELSE femaleRow(field, decade, r)]

discoveries ==
  Take(
  << [name |-> <<"Electromagnetic induction">>, year |-> 1831, field |-> <<"physics">>, location |-> <<"London">>,
      country |-> <<"United Kingdom">>, lat |-> <<"5", "1", ".", "5", "0", "7", "4">>, lon |-> <<"-", "0", ".", "1", "2", "7", "8">>,
      discoverer |-> <<"Michael Faraday">>],
     [name |-> <<"X-rays">>, year |-> 1895, field |-> <<"physics">>, location |-> <<"Wuerzburg">>,
      country |-> <<"Germany">>, lat |-> <<"4", "9", ".", "7", "9", "1", "3">>, lon |-> <<"9", ".", "9", "5", "3", "4">>,
      discoverer |-> <<"Wilhelm Roentgen">>],
     [name |-> <<"Radioactivity">>, year |-> 1896, field |-> <<"physics">>, location |-> <<"Paris">>,
      country |-> <<"France">>, lat |-> <<"4", "8", ".", "8", "5", "6", "6">>, lon |-> <<"2", ".", "3", "5", "2", "2">>,
      discoverer |-> <<"Henri Becquerel">>],
     [name |-> <<"Electron">>, year |-> 1897, field |-> <<"physics">>, location |-> <<"Cambridge">>,
      country |-> <<"United Kingdom">>, lat |-> <<"5", "2", ".", "2", "0", "5", "3">>, lon |-> <<"0", ".", "1", "2", "1", "8">>,
      discoverer |-> <<"J.J. Thomson">>],
     [name |-> <<"DNA structure">>, year |-> 1953, field |-> <<"biology">>, location |-> <<"Cambridge">>,
      country |-> <<"United Kingdom">>, lat |-> <<"5", "2", ".", "2", "0", "5", "3">>, lon |-> <<"0", ".", "1", "2", "1", "8">>,
      discoverer |-> <<"Watson and Crick">>],
     [name |-> <<"Penicillin">>, year |-> 1928, field |-> <<"medicine">>, location |-> <<"London">>,
      country |-> <<"United Kingdom">>, lat |-> <<"5", "1", ".", "5", "0", "7", "4">>, lon |-> <<"-", "0", ".", "1", "2", "7", "8">>,
      discoverer |-> <<"Alexander Fleming">>],
     [name |-> <<"Transistor">>, year |-> 1947, field |-> <<"physics">>, location |-> <<"New Jersey">>,
      country |-> <<"United States">>, lat |-> <<"4", "0", ".", "0", "5", "8", "3">>, lon |-> <<"-", "7", "4", ".", "4", "0", "5", "7">>,
      discoverer |-> <<"Bardeen, Brattain, and Shockley">>],
     [name |-> <<"World Wide Web">>, year |-> 1989, field |-> <<"computer science">>, location |-> <<"Geneva">>,
      country |-> <<"Switzerland">>, lat |-> <<"4", "6", ".", "2", "0", "4", "4">>, lon |-> <<"6", ".", "1", "4", "3", "2">>,
      discoverer |-> <<"Tim Berners-Lee">>],
     [name |-> <<"Periodic table">>, year |-> 1869, field |-> <<"chemistry">>, location |-> <<"Saint Petersburg">>,
      country |-> <<"Russia">>, lat |-> <<"5", "9", ".", "9", "3", "4", "3">>, lon |-> <<"3", "0", ".", "3", "3", "5", "1">>,
      discoverer |-> <<"Dmitri Mendeleev">>],
     [name |-> <<"Theory of relativity">>, year |-> 1905, field |-> <<"physics">>, location |-> <<"Bern">>,
      country |-> <<"Switzerland">>, lat |-> <<"4", "6", ".", "9", "4", "8">>, lon |-> <<"7", ".", "4", "4", "7", "4">>,
      discoverer |-> <<"Albert Einstein">>] >>,
  MaxMockDiscoveries)

generateDiscoveryMockData(r) ==
  [i \in 1..Len(discoveries) |->
     LET d == discoveries[i] IN
     [discovery |-> [value |-> RandomEntity(r)],
      discoveryLabel |-> [value |-> d.name],
      year |-> [value |-> toString(d.year)],
      field |-> [value |-> RandomEntity(r)],
      fieldLabel |-> [value |-> d.field],
      locationLabel |-> [value |-> d.location],
      countryLabel |-> [value |-> d.country],
      lat |-> [value |-> d.lat],
      lon |-> [value |-> d.lon],
      discovererLabel |-> [value |-> d.discoverer]]]

\* The discovery test comes first.
generateMockDataDiscoveryFirst(query, r) ==
  IF Includes(query, <<"discovery">>) THEN generateDiscoveryMockData(r)
  ELSE IF Includes(query, <<"gender">>) THEN generateGenderMockData(r)
  ELSE <<>>

\* generateMockData: the gender test, then the discovery test, else []
generateMockData(query, r) ==
  IF Includes(query, <<"gender">>) THEN generateGenderMockData(r)
  ELSE IF Includes(query, <<"discovery">>) THEN generateDiscoveryMockData(r)
  ELSE <<>>

\* ------------------------------------------------------------ the client
NoError == [name |-> "none", message |-> <<>>]
NoResult == [kind |-> "none", value |-> Undefined, error |-> NoError]
Returned(v) == [kind |-> "return", value |-> v, error |-> NoError]
Thrown(n, m) == [kind |-> "throw", value |-> Undefined,
                 error |-> [name |-> n, message |-> m]]

QueryFailedMessage(status, statusText) ==
  <<"SPARQL query failed: ">> \o toString(status) \o <<" ">> \o statusText

\* The try block of querySPARQL, run against one answer of the network.
TryBody(resp) ==
  IF resp.settle = "reject" THEN Thrown("TypeError", <<"Failed to fetch">>)
  ELSE IF ~resp.ok
    THEN Thrown("Error", QueryFailedMessage(resp.status, resp.statusText))
  ELSE IF resp.body = "unparsable"
    THEN Thrown("SyntaxError", <<"Unexpected token">>)
  ELSE IF resp.body = "no_results"
    THEN Thrown("TypeError", <<"Cannot read properties of undefined">>)
  ELSE IF resp.body = "no_bindings" THEN Returned(Undefined)
  ELSE Returned(Arr(resp.bindings))

\* The try block without its catch clause.
querySPARQLNoCatch(sparqlQuery, resp, r) == TryBody(resp)

\* querySPARQL: the try block, and the catch clause that turns whatever it
\* threw into the mock data for the query.
querySPARQL(sparqlQuery, resp, r) ==
  IF TryBody(resp).kind = "throw"
    THEN Returned(Arr(generateMockData(sparqlQuery, r)))
    ELSE TryBody(resp)

\* ---------------------------------------------------------------- the app
DefaultCacheTimeMinutes == 60    \* cacheTimeMinutes = 60
MaxSessionMinutes == 60          \* length of a session of the app

Views == {"gender", "discoveries", "about"}
DataViews == {"gender", "discoveries"}

\* The query texts of the two data views.  The gender text has "Gender" in
\* its comment and ?gender among its variables; the discoveries text has
\* "discoveries" in its comment and ?discovery among its variables.
GenderQuery == <<"#", " ", "Gender", " ", "SELECT", " ", "?", "gender">>
DiscoveriesQuery ==
  <<"#", " ", "Scientific", " ", "discoveries", " ",
    "SELECT", " ", "?", "discovery">>
ViewQuery(v) == IF v = "gender" THEN GenderQuery ELSE DiscoveriesQuery
AppQueries == {GenderQuery, DiscoveriesQuery}


\* ------------------------------------------------------------- the cache
VARIABLES
  now,          \* Date.now()
  queryCache,   \* the queryCache object: own keys -> {timestamp, data}
  origin,       \* history: for each key, how the stored data was obtained
  fetches,      \* history: network requests issued, per query text
  pc,           \* per call: "idle", "fetch" (await fetch), "json", "done"
  cq,           \* per call: the sparqlQuery argument
  cttl,         \* per call: the cacheTimeMinutes argument
  net,          \* per call: the network's answer to the call's request
  hit,          \* history: per call, whether it was served from the cache
  ret,          \* per call: how the call completed
  rpc,          \* queryWithRetry: "idle", "attempt", "backoff", "done"
  rq,           \* queryWithRetry: the query argument
  rmax,         \* queryWithRetry: the maxRetries argument
  rnet,         \* queryWithRetry: the network's answer to the last attempt
  retries,      \* queryWithRetry: the retry counter
  outcomes,     \* history: the outcome of each attempt of the client
  waits,        \* history: the backoff waits performed, in seconds
  rret,         \* queryWithRetry: how the call completed
  nin,          \* processWikidataResults: the results argument
  nout,         \* processWikidataResults: how the call completed
  kq,           \* querySPARQL alone: the sparqlQuery argument
  knet,         \* querySPARQL alone: the network's answer
  krand,        \* querySPARQL alone: the value of Math.random()
  kret,         \* querySPARQL alone: how the call completed
  activeView,   \* App: the activeView state
  rendered,     \* App: whether the first render has happened
  live,         \* per call: whether the mounted view instance awaits it
  data,         \* mounted view: the data state
  loading,      \* mounted view: the loading state
  fields,       \* mounted view: the fields state
  errorState,   \* mounted view: the error state
  fallbackMode, \* mounted view: the fallbackMode state
  dataOrigin,   \* history: how the data of the mounted view was obtained
  gdata,        \* GenderRepresentation aggregation: the data state
  selectedField,   \* GenderRepresentation aggregation: the selected field
  aggregatedData   \* GenderRepresentation aggregation: the result

cacheVars == <<now, queryCache, origin, fetches, pc, cq, cttl, net, hit, ret>>
retryVars == <<rpc, rq, rmax, rnet, retries, outcomes, waits, rret>>
normVars == <<nin, nout>>
\* What neither the cache nor the retry wrapper touches
clientVars == <<kq, knet, krand, kret>>
appVars == <<activeView, rendered, live, data, fields, loading, errorState,
             fallbackMode, dataOrigin>>
aggVars == <<gdata, selectedField, aggregatedData>>
\* What neither the cache nor the retry wrapper touches
otherVars == <<normVars, clientVars, appVars, aggVars>>
vars == <<now, queryCache, origin, fetches, pc, cq, cttl, net, hit, ret,
          rpc, rq, rmax, rnet, retries, outcomes, waits, rret, nin, nout,
          kq, knet, krand, kret, activeView, rendered, live, data, fields,
          loading, errorState, fallbackMode, dataOrigin, gdata, selectedField,
          aggregatedData>>

RECURSIVE SumOver(_, _)
SumOver(f, S) ==
  IF S = {} THEN 0
  ELSE LET x == CHOOSE y \in S : TRUE IN f[x] + SumOver(f, S \ {x})

TotalFetches == SumOver(fetches, DOMAIN fetches)

\* The key is the text with its blanks removed.
CacheKeyNoBlanks(sparqlQuery) == SelectSeq(sparqlQuery, LAMBDA tok : tok # " ")

\* const cacheKey = sparqlQuery
CacheKey(sparqlQuery) == sparqlQuery

\* The age in milliseconds is compared with the minutes.
CacheValidNoUnits(cache, cacheKey, t, cacheTimeMinutes) ==
  /\ cacheKey \in DOMAIN cache
  /\ (t - cache[cacheKey].timestamp) < cacheTimeMinutes

\* An entry as old as the ttl still counts.
CacheValidInclusive(cache, cacheKey, t, cacheTimeMinutes) ==
  /\ cacheKey \in DOMAIN cache
  /\ (t - cache[cacheKey].timestamp) <= cacheTimeMinutes * MsPerMinute

\* queryCache[cacheKey] is set and cacheAge < cacheTimeMinutes, with
\* cacheAge = (Date.now() - timestamp) / (1000 * 60)
CacheValid(cache, cacheKey, t, cacheTimeMinutes) ==
  /\ cacheKey \in DOMAIN cache
  /\ (t - cache[cacheKey].timestamp) < cacheTimeMinutes * MsPerMinute

\* The store replaces the whole cache by the one entry.
CacheStoreOnly(cache, cacheKey, entry) == [k \in {cacheKey} |-> entry]

\* queryCache[cacheKey] = entry
CacheStore(cache, cacheKey, entry) ==
  [k \in (DOMAIN cache) \cup {cacheKey} |->
     IF k = cacheKey THEN entry ELSE cache[k]]

InitCache ==
  /\ now = 0
  /\ queryCache = <<>>
  /\ origin = <<>>
  /\ fetches = [q \in Queries \cup AppQueries |-> 0]
  /\ pc = [c \in Calls |-> "idle"]
  /\ cq = [c \in Calls |-> <<>>]
  /\ cttl = [c \in Calls |-> 0]
  /\ net = [c \in Calls |-> NoResponse]
  /\ hit = [c \in Calls |-> FALSE]
  /\ ret = [c \in Calls |-> NoResult]

InitRetry ==
  /\ rpc = "idle"
  /\ rq = <<>>
  /\ rmax = 0
  /\ rnet = NoResponse
  /\ retries = 0
  /\ outcomes = <<>>
  /\ waits = <<>>
  /\ rret = NoResult

\* processWikidataResults has not been called.
InitNormIdle ==
  /\ nin = Undefined
  /\ nout = NoResult

\* querySPARQL has not been called on its own.
InitClientIdle ==
  /\ kq = <<>>
  /\ knet = NoResponse
  /\ krand = [num |-> 0, den |-> 1]
  /\ kret = NoResult

\* App before its first render; no view is mounted.
InitAppIdle ==
  /\ activeView = "gender"
  /\ rendered = FALSE
  /\ live = [c \in Calls |-> FALSE]
  /\ data = Arr(<<>>)
  /\ fields = <<>>
  /\ loading = TRUE
  /\ errorState = <<>>
  /\ fallbackMode = FALSE
  /\ dataOrigin = "none"

\* The aggregation effect has nothing to aggregate.
InitAggIdle ==
  /\ gdata = <<>>
  /\ selectedField = <<"all">>
  /\ aggregatedData = <<>>

Init ==
  /\ InitCache /\ InitRetry
  /\ InitNormIdle /\ InitClientIdle /\ InitAppIdle /\ InitAggIdle

\* No completed call is waiting for its caller: the continuation of the
\* awaiting caller is a microtask, run before any timer, network event or
\* new user event is handled.
CallersResumed == \A c \in Calls : pc[c] # "done"

\* Time passes.
Tick(d) ==
  /\ CallersResumed
  /\ now + d <= MaxNow
  /\ now' = now + d
  /\ UNCHANGED <<queryCache, origin, fetches, pc, cq, cttl, net, hit, ret>>
  /\ UNCHANGED retryVars

\* A call that finds the same query in flight waits for that request
\* instead of issuing its own.
querySPARQLWithCacheCoalescing(c, sparqlQuery, cacheTimeMinutes) ==
  /\ CallersResumed
  /\ pc[c] = "idle"
  /\ \A d \in Calls : d < c => pc[d] # "idle"
  /\ cq' = [cq EXCEPT ![c] = sparqlQuery]
  /\ cttl' = [cttl EXCEPT ![c] = cacheTimeMinutes]
  /\ IF CacheValid(queryCache, CacheKey(sparqlQuery), now, cacheTimeMinutes)
       THEN /\ pc' = [pc EXCEPT ![c] = "done"]
            /\ hit' = [hit EXCEPT ![c] = TRUE]
            /\ ret' = [ret EXCEPT ![c] =
                         Returned(queryCache[CacheKey(sparqlQuery)].data)]
            /\ UNCHANGED fetches
       ELSE /\ TotalFetches < MaxFetches
            /\ pc' = [pc EXCEPT ![c] = "fetch"]
            /\ fetches' =
                 IF \E d \in Calls : pc[d] \in {"fetch", "json"} /\ cq[d] = sparqlQuery
                   THEN fetches
                   ELSE [fetches EXCEPT ![sparqlQuery] = @ + 1]
            /\ UNCHANGED <<hit, ret>>
  /\ UNCHANGED <<now, queryCache, origin, net>>
  /\ UNCHANGED retryVars

\* querySPARQLWithCache up to its first suspension: the cache lookup, and on
\* a miss the call of querySPARQL, which issues the request and awaits it.
querySPARQLWithCache(c, sparqlQuery, cacheTimeMinutes) ==
  /\ CallersResumed
  /\ pc[c] = "idle"
  /\ \A d \in Calls : d < c => pc[d] # "idle"
  /\ cq' = [cq EXCEPT ![c] = sparqlQuery]
  /\ cttl' = [cttl EXCEPT ![c] = cacheTimeMinutes]
  /\ IF CacheValid(queryCache, CacheKey(sparqlQuery), now, cacheTimeMinutes)
       THEN /\ pc' = [pc EXCEPT ![c] = "done"]
            /\ hit' = [hit EXCEPT ![c] = TRUE]
            /\ ret' = [ret EXCEPT ![c] =
                         Returned(queryCache[CacheKey(sparqlQuery)].data)]
            /\ UNCHANGED fetches
       ELSE /\ TotalFetches < MaxFetches
            /\ pc' = [pc EXCEPT ![c] = "fetch"]
            /\ fetches' = [fetches EXCEPT ![sparqlQuery] = @ + 1]
            /\ UNCHANGED <<hit, ret>>
  /\ UNCHANGED <<now, queryCache, origin, net>>
  /\ UNCHANGED retryVars

\* querySPARQL has completed with `result`: the rest of querySPARQLWithCache.
\* A returned value is stored under the key and returned; a thrown error
\* leaves the function before the store.
Complete(c, result) ==
  /\ pc' = [pc EXCEPT ![c] = "done"]
  /\ ret' = [ret EXCEPT ![c] = result]
  /\ IF result.kind = "return"
       THEN /\ queryCache' = CacheStore(queryCache, CacheKey(cq[c]),
                               [timestamp |-> now, data |-> result.value])
            /\ origin' = CacheStore(origin, CacheKey(cq[c]),
                           IF TryBody(net'[c]).kind = "return"
                             THEN "network" ELSE "fallback")
       ELSE UNCHANGED <<queryCache, origin>>

\* A request answered with status 429 is issued again.
FetchSettlesRetrying(c, head, r) ==
  /\ CallersResumed
  /\ pc[c] = "fetch"
  /\ net' = [net EXCEPT ![c] = head]
  /\ IF head.settle = "response" /\ head.ok
       THEN /\ pc' = [pc EXCEPT ![c] = "json"]
            /\ UNCHANGED <<queryCache, origin, ret, fetches>>
       ELSE IF head.status = 429 /\ TotalFetches < MaxFetches
         THEN /\ fetches' = [fetches EXCEPT ![cq[c]] = @ + 1]
              /\ UNCHANGED <<pc, queryCache, origin, ret>>
       ELSE /\ Complete(c, querySPARQL(cq[c], head, r))
            /\ UNCHANGED fetches
  /\ UNCHANGED <<now, cq, cttl, hit>>
  /\ UNCHANGED retryVars

\* The request of call c settles.  A rejection or a non-ok status ends the
\* try block at once; an ok response goes on to await response.json().
FetchSettles(c, head, r) ==
  /\ CallersResumed
  /\ pc[c] = "fetch"
  /\ net' = [net EXCEPT ![c] = head]
  /\ IF head.settle = "response" /\ head.ok
       THEN /\ pc' = [pc EXCEPT ![c] = "json"]
            /\ UNCHANGED <<queryCache, origin, ret>>
       ELSE Complete(c, querySPARQL(cq[c], head, r))
  /\ UNCHANGED <<now, fetches, cq, cttl, hit>>
  /\ UNCHANGED retryVars

\* response.json() of call c settles: the body has been read.
JsonSettles(c, body, r) ==
  /\ CallersResumed
  /\ pc[c] = "json"
  /\ net' = [net EXCEPT ![c] = WithBody(net[c], body)]
  /\ Complete(c, querySPARQL(cq[c], WithBody(net[c], body), r))
  /\ UNCHANGED <<now, fetches, cq, cttl, hit>>
  /\ UNCHANGED retryVars

\* The caller has taken the result of call c.
Return(c) ==
  /\ pc[c] = "done"
  /\ pc' = [pc EXCEPT ![c] = "idle"]
  /\ cq' = [cq EXCEPT ![c] = <<>>]
  /\ cttl' = [cttl EXCEPT ![c] = 0]
  /\ net' = [net EXCEPT ![c] = NoResponse]
  /\ hit' = [hit EXCEPT ![c] = FALSE]
  /\ ret' = [ret EXCEPT ![c] = NoResult]
  /\ UNCHANGED <<now, queryCache, origin, fetches>>
  /\ UNCHANGED retryVars

TickStep == (\E d \in TickSteps : Tick(d)) /\ UNCHANGED otherVars
CallStep ==
  /\ \E c \in Calls, q \in Queries, ttl \in TTLs :
       querySPARQLWithCache(c, q, ttl)
  /\ UNCHANGED otherVars
FetchStep ==
  /\ \E c \in Calls, head \in Heads, r \in RandSamples :
       FetchSettles(c, head, r)
  /\ UNCHANGED otherVars
JsonStep ==
  /\ \E c \in Calls, body \in Bodies, r \in RandSamples :
       JsonSettles(c, body, r)
  /\ UNCHANGED otherVars
ReturnStep == (\E c \in Calls : Return(c)) /\ UNCHANGED otherVars

Next == TickStep \/ CallStep \/ FetchStep \/ JsonStep \/ ReturnStep

Spec == Init /\ [][Next]_vars

\* ------------------------------------------------------ the retry wrapper
Pow2(n) == 2 ^ n

MaxRetriesExceeded == Thrown("Error", <<"Maximum retries exceeded">>)

\* The client the wrapper calls: it returns the bindings or fails.
plainClient(resp) == TryBody(resp)

\* Every error is taken for rate limiting.
IsRateLimitedAlways(error) == TRUE

\* error.message contains "429"
IsRateLimited(error) == Includes(error.message, <<"4", "2", "9">>)

\* One attempt too many.
MayAttemptInclusive(n, maxRetries) == n <= maxRetries

\* Another attempt is made while retries < maxRetries
MayAttempt(n, maxRetries) == n < maxRetries

\* queryWithRetry(query, maxRetries) up to its first suspension.
queryWithRetry(query, maxRetries) ==
  /\ rpc = "idle"
  /\ rq' = query
  /\ rmax' = maxRetries
  /\ retries' = 0
  /\ outcomes' = <<>>
  /\ waits' = <<>>
  /\ rnet' = NoResponse
  /\ IF MayAttempt(0, maxRetries)
       THEN rpc' = "attempt" /\ rret' = NoResult
       ELSE rpc' = "done" /\ rret' = MaxRetriesExceeded
  /\ UNCHANGED cacheVars

\* The client's attempt settles: a result is returned, a rate-limit error is
\* counted and followed by a wait of 2^retries seconds, any other error is
\* thrown on.
AttemptSettles(resp) ==
  /\ rpc = "attempt"
  /\ rnet' = resp
  /\ LET out == plainClient(resp) IN
       IF out.kind = "return"
         THEN /\ rpc' = "done"
              /\ rret' = out
              /\ outcomes' = Append(outcomes, "ok")
              /\ UNCHANGED <<retries, waits>>
       ELSE IF IsRateLimited(out.error)
         THEN /\ rpc' = "backoff"
              /\ retries' = retries + 1
              /\ waits' = Append(waits, Pow2(retries + 1))
              /\ outcomes' = Append(outcomes, "429")
              /\ UNCHANGED rret
       ELSE /\ rpc' = "done"
            /\ rret' = out
            /\ outcomes' = Append(outcomes, "other")
            /\ UNCHANGED <<retries, waits>>
  /\ UNCHANGED <<rq, rmax>>
  /\ UNCHANGED cacheVars

\* The backoff wait is over: the next attempt, or the end of the budget.
BackoffElapses ==
  /\ rpc = "backoff"
  /\ IF MayAttempt(retries, rmax)
       THEN rpc' = "attempt" /\ UNCHANGED rret
       ELSE rpc' = "done" /\ rret' = MaxRetriesExceeded
  /\ UNCHANGED <<rq, rmax, rnet, retries, outcomes, waits>>
  /\ UNCHANGED cacheVars

\* The caller has taken the outcome of queryWithRetry.
RetryReturn ==
  /\ rpc = "done"
  /\ rpc' = "idle"
  /\ rq' = <<>>
  /\ rmax' = 0
  /\ rnet' = NoResponse
  /\ retries' = 0
  /\ outcomes' = <<>>
  /\ waits' = <<>>
  /\ rret' = NoResult
  /\ UNCHANGED cacheVars

RetryCallStep ==
  /\ \E q \in Queries, m \in 0..MaxRetriesArg : queryWithRetry(q, m)
  /\ UNCHANGED otherVars
AttemptStep ==
  (\E resp \in Responses : AttemptSettles(resp)) /\ UNCHANGED otherVars
BackoffStep == BackoffElapses /\ UNCHANGED otherVars
RetryReturnStep == RetryReturn /\ UNCHANGED otherVars

NextRetry == RetryCallStep \/ AttemptStep \/ BackoffStep \/ RetryReturnStep

SpecRetry == Init /\ [][NextRetry]_vars

\* --------------------------------------------------- the result normalizer
MaxRows == 2              \* rows of a results array given to the normalizer

Null == [type |-> "null", items |-> <<>>]
Obj == [type |-> "object", items |-> <<>>]
Str(s) == [type |-> "string", items |-> s]
\* A number is the fraction num/den, den a power of ten; 1/0 and -1/0 are
\* the infinities and 0/0 is NaN.
Num(n, d) == [type |-> "number", num |-> n, den |-> d]
NaN == Num(0, 0)

\* ToBoolean
Truthy(v) ==
  CASE v.type \in {"null", "undefined"} -> FALSE
    [] v.type = "string" -> v.items # <<>>
    [] v.type = "number" -> v.num # 0
    [] OTHER -> TRUE

\* Any truthy value passes for an array.
IsArrayAnyObject(v) == TRUE

\* Array.isArray
IsArray(v) == v.type = "array"

IsDigit(t) == \E i \in 1..10 : Digits[i] = t
DigitValue(t) == (CHOOSE i \in 1..10 : Digits[i] = t) - 1
IsWhiteSpace(t) == t \in {" ", "\t", "\n"}
AllDigits(s) == \A i \in 1..Len(s) : IsDigit(s[i])

RECURSIVE DigitsValue(_)
DigitsValue(s) ==
  IF s = <<>> THEN 0
  ELSE DigitsValue(SubSeq(s, 1, Len(s) - 1)) * 10 + DigitValue(s[Len(s)])

RECURSIVE Pow10(_)
Pow10(k) == IF k = 0 THEN 1 ELSE 10 * Pow10(k - 1)

\* The fraction n/d with the common factors of ten removed
RECURSIVE Reduce(_, _)
Reduce(n, d) ==
  IF d > 1 /\ n % 10 = 0 THEN Reduce(n \div 10, d \div 10) ELSE Num(n, d)

RECURSIVE TrimStart(_)
TrimStart(s) ==
  IF s # <<>> /\ IsWhiteSpace(s[1]) THEN TrimStart(Tail(s)) ELSE s
RECURSIVE TrimEnd(_)
TrimEnd(s) ==
  IF s # <<>> /\ IsWhiteSpace(s[Len(s)])
    THEN TrimEnd(SubSeq(s, 1, Len(s) - 1)) ELSE s

\* The first position of s that holds a token of S (0 when there is none)
FirstIndex(s, S) ==
  IF \E i \in 1..Len(s) : s[i] \in S
    THEN CHOOSE i \in 1..Len(s) :
           s[i] \in S /\ \A j \in 1..(i - 1) : s[j] \notin S
    ELSE 0

\* An unsigned StrDecimalLiteral: digits with an optional fraction and an
\* optional exponent; NaN when the text is no such literal.
UnsignedDecimal(b) ==
  LET e == FirstIndex(b, {"e", "E"})
      mant == IF e = 0 THEN b ELSE SubSeq(b, 1, e - 1)
      expo == IF e = 0 THEN <<>> ELSE SubSeq(b, e + 1, Len(b))
      esign == IF expo # <<>> /\ expo[1] = "-" THEN -1 ELSE 1
      edigits == IF expo # <<>> /\ expo[1] \in {"+", "-"}
                   THEN Tail(expo) ELSE expo
      dot == FirstIndex(mant, {"."})
      int == IF dot = 0 THEN mant ELSE SubSeq(mant, 1, dot - 1)
      frac == IF dot = 0 THEN <<>> ELSE SubSeq(mant, dot + 1, Len(mant))
      scale == esign * DigitsValue(edigits) - Len(frac)
  IN IF b = <<"I", "n", "f", "i", "n", "i", "t", "y">> THEN Num(1, 0)
     ELSE IF /\ AllDigits(int) /\ AllDigits(frac)
             /\ (int # <<>> \/ frac # <<>>)
             /\ (e = 0 \/ (edigits # <<>> /\ AllDigits(edigits)))
       THEN IF scale >= 0
              THEN Num(DigitsValue(int \o frac) * Pow10(scale), 1)
              ELSE Reduce(DigitsValue(int \o frac), Pow10(-scale))
     ELSE NaN

\* Number(string): white space is trimmed, the empty text is 0, a decimal
\* literal with an optional sign is its value, anything else is NaN.
ToNumber(s) ==
  LET t == TrimEnd(TrimStart(s))
      signed == t # <<>> /\ t[1] \in {"+", "-"}
      u == UnsignedDecimal(IF signed THEN Tail(t) ELSE t)
  IN IF t = <<>> THEN Num(0, 1)
     ELSE IF signed /\ t[1] = "-" THEN Num(-u.num, u.den)
     ELSE u

\* isNaN(string)
IsNaN(s) == ToNumber(s) = NaN

\* item[key] && item[key].value !== undefined
HasDefinedValue(cell) == cell # Null /\ "value" \in DOMAIN cell

\* processed[key]: the value, as a number when !isNaN(value) && key !== 'id'
Processed(key, value) ==
  IF ~IsNaN(value) /\ key # "id" THEN ToNumber(value) ELSE Str(value)

\* Every key of the item is kept; a cell without a value gives null.
ProcessItemNullFilling(item) ==
  [key \in DOMAIN item |->
     IF HasDefinedValue(item[key])
       THEN Processed(key, item[key].value) ELSE Null]

\* The body of results.map: the keys whose cell has a value
ProcessItem(item) ==
  [key \in {k \in DOMAIN item : HasDefinedValue(item[k])} |->
     Processed(key, item[key].value)]

\* The rows that come out empty are dropped.
processWikidataResultsDropEmpty(results) ==
  IF ~Truthy(results) \/ ~IsArray(results) THEN Returned(Arr(<<>>))
  ELSE Returned(Arr(SelectSeq(
         [i \in 1..Len(results.items) |-> ProcessItem(results.items[i])],
         LAMBDA p : DOMAIN p # {})))

processWikidataResults(results) ==
  IF ~Truthy(results) \/ ~IsArray(results) THEN Returned(Arr(<<>>))
  ELSE IF results.type # "array"
    THEN Thrown("TypeError", <<"results.map is not a function">>)
  ELSE Returned(Arr(
         [i \in 1..Len(results.items) |-> ProcessItem(results.items[i])]))

\* The inputs: values that are no array, and arrays of binding records over
\* two variables whose cell is absent, null, without value, or a string.
NormStrings ==
  {<<"4", "2">>, <<"Q", "5">>, <<>>, <<" ">>, <<"4", ".", "5">>}
NoValueCell == [datatype |-> <<"string">>]
NormCells == {Null, NoValueCell} \cup {[value |-> s] : s \in NormStrings}
NormKeys == {"count", "id"}
NormRows ==
  {<< >>}
    \cup {[k \in {"count"} |-> c] : c \in NormCells}
    \cup {[k \in {"id"} |-> [value |-> s]]
             : s \in {<<"Q", "5">>, <<"4", "2">>}}
    \cup {[count |-> c, id |-> [value |-> s]]
             : c \in NormCells, s \in {<<"Q", "5">>, <<"4", "2">>}}
NonSequences ==
  {Null, Undefined, Obj, Str(<<>>), Str(<<"a", "b">>), Num(0, 1), Num(5, 1)}
NormInputs ==
  NonSequences
    \cup UNION {{Arr(rows) : rows \in [1..n -> NormRows]} : n \in 0..MaxRows}

InitNorm ==
  /\ InitCache /\ InitRetry /\ InitClientIdle /\ InitAppIdle /\ InitAggIdle
  /\ nin \in NormInputs
  /\ nout = NoResult

\* processWikidataResults(nin) runs to completion.
Normalize ==
  /\ nout = NoResult
  /\ nout' = processWikidataResults(nin)
  /\ UNCHANGED <<nin, cacheVars, retryVars, clientVars, appVars, aggVars>>

NextNorm == Normalize

SpecNorm == InitNorm /\ [][NextNorm]_vars

\* ------------------------------------------------- the client on its own
\* Query texts for the fallback: mentioning gender, discovery, both (the
\* discovery first), Gender with a capital, and neither.
QDiscovery == <<"SELECT", " ", "?", "discovery">>
QBoth == <<"SELECT", " ", "?", "discovery", " ", "?", "gender">>
QCapital == <<"#", " ", "Gender">>
MockQueries == {QGender, QDiscovery, QBoth, QCapital, QOther}

InitClient ==
  /\ InitCache /\ InitRetry /\ InitNormIdle /\ InitAppIdle /\ InitAggIdle
  /\ kq \in MockQueries
  /\ knet \in Responses
  /\ krand \in RandSamples
  /\ kret = NoResult

\* querySPARQL(kq) runs to completion against the answer knet.
ClientCall ==
  /\ kret = NoResult
  /\ kret' = querySPARQL(kq, knet, krand)
  /\ UNCHANGED <<kq, knet, krand>>
  /\ UNCHANGED <<cacheVars, retryVars, normVars, appVars, aggVars>>

NextClient == ClientCall

SpecClient == InitClient /\ [][NextClient]_vars

\* ------------------------------------------------------------ the views
AppTickSteps ==
  {DefaultCacheTimeMinutes * MsPerMinute - 1,
   DefaultCacheTimeMinutes * MsPerMinute}

\* A binding with coordinates, as the discoveries query returns it
RowLocated ==
  [discovery |-> [value |-> EntityPrefix \o <<"1">>],
   field |-> [value |-> EntityPrefix \o <<"4", "1", "3">>],
   lat |-> [value |-> <<"5", "1", ".", "5">>],
   lon |-> [value |-> <<"-", "0", ".", "1">>]]
AppBodies ==
  {b \in Bodies : b.shape # "bindings"}
    \cup {[shape |-> "bindings", bindings |-> <<RowLocated>>]}

\* item[key] of a normalized record (undefined when the key is absent)
Get(item, key) == IF key \in DOMAIN item THEN item[key] ELSE Undefined

\* The first occurrences of the elements of s, in order ([...new Set(s)])
RECURSIVE Unique(_)
Unique(s) ==
  IF s = <<>> THEN <<>>
  ELSE LET front == Unique(SubSeq(s, 1, Len(s) - 1))
           x == s[Len(s)]
       IN IF \E i \in 1..Len(front) : front[i] = x
            THEN front ELSE Append(front, x)

\* str.split('/').pop(): the text after the last slash.  The only run of
\* characters with slashes in it is the entity prefix, which ends in "Q".
LastSegment(s) ==
  LET cut == {i \in 1..Len(s) : s[i] = "/" \/ s[i] = EntityPrefix[1]}
      last == CHOOSE i \in cut : \A j \in cut : j <= i
  IN IF cut = {} THEN s
     ELSE IF s[last] = "/" THEN SubSeq(s, last + 1, Len(s))
     ELSE <<"Q">> \o SubSeq(s, last + 1, Len(s))

fieldMapping ==
  [id \in {<<"Q", "4", "1", "3">>, <<"Q", "2", "3", "2", "9">>,
           <<"Q", "4", "2", "0">>, <<"Q", "1", "1", "1", "9", "0">>,
           <<"Q", "2", "1", "1", "9", "8">>} |->
     CASE id = <<"Q", "4", "1", "3">> -> <<"physics">>
       [] id = <<"Q", "2", "3", "2", "9">> -> <<"chemistry">>
       [] id = <<"Q", "4", "2", "0">> -> <<"biology">>
       [] id = <<"Q", "1", "1", "1", "9", "0">> -> <<"medicine">>
       [] OTHER -> <<"computer science">>]

\* item.field.split is called on a truthy field that is no string.
SplitThrows(item) ==
  Truthy(Get(item, "field")) /\ Get(item, "field").type # "string"

\* item.fieldCategory
FieldCategory(item) ==
  IF Truthy(Get(item, "field"))
    THEN LET fieldId == LastSegment(item.field.items)
         IN IF fieldId \in DOMAIN fieldMapping
              THEN Str(fieldMapping[fieldId]) ELSE Str(<<"other">>)
    ELSE Str(<<"other">>)

\* The item with its fieldCategory set
Categorized(item) ==
  [k \in DOMAIN item \cup {"fieldCategory"} |->
     IF k = "fieldCategory" THEN FieldCategory(item) ELSE item[k]]

\* processedData.filter(item => item.lat && item.lon)
HasLocation(item) == Truthy(Get(item, "lat")) /\ Truthy(Get(item, "lon"))

\* The rest of GenderRepresentation's fetchData once `result` has arrived.
GenderContinuation(result, org) ==
  IF result.kind = "throw"
    THEN /\ errorState' = result.error.message
         /\ loading' = FALSE
         /\ UNCHANGED <<data, fields, fallbackMode, dataOrigin>>
    ELSE LET processedData == processWikidataResults(result.value).value.items
         IN /\ data' = Arr(processedData)
            /\ dataOrigin' = org
            /\ fields' = Unique([i \in 1..Len(processedData) |->
                                   Get(processedData[i], "fieldLabel")])
            /\ loading' = FALSE
            /\ UNCHANGED <<errorState, fallbackMode>>

\* The catch clause of ScientificDiscoveries' fetchData
DiscoveriesCatch(message) ==
  /\ errorState' = message
  /\ fallbackMode' = TRUE
  /\ loading' = FALSE

\* The rest of ScientificDiscoveries' fetchData once `result` has arrived.
DiscoveriesContinuation(result, org) ==
  IF result.kind = "throw"
    THEN /\ DiscoveriesCatch(result.error.message)
         /\ UNCHANGED <<data, fields, dataOrigin>>
    ELSE LET processedData == processWikidataResults(result.value).value.items
             filteredData == SelectSeq(processedData, HasLocation)
             categorized == [i \in 1..Len(filteredData) |->
                               Categorized(filteredData[i])]
             thrower == {i \in 1..Len(filteredData) :
                           SplitThrows(filteredData[i])}
             first == CHOOSE i \in thrower : \A j \in thrower : i <= j
             uniqueFields == Unique([i \in 1..Len(filteredData) |->
                                       categorized[i].fieldCategory])
         IN IF filteredData = <<>>
              THEN /\ DiscoveriesCatch(
                        <<"No data with location information found">>)
                   /\ UNCHANGED <<data, fields, dataOrigin>>
            ELSE IF thrower # {}
              THEN /\ data' = Arr([i \in 1..Len(filteredData) |->
                                     IF i < first THEN categorized[i]
                                     ELSE filteredData[i]])
                   /\ dataOrigin' = org
                   /\ DiscoveriesCatch(<<"item.field.split is not a function">>)
                   /\ UNCHANGED fields
            ELSE /\ data' = Arr(categorized)
                 /\ dataOrigin' = org
                 /\ fields' = SelectSeq(uniqueFields,
                                        LAMBDA f : f # Str(<<"other">>))
                 /\ loading' = FALSE
                 /\ UNCHANGED <<errorState, fallbackMode>>

\* The effect passes a cacheTimeMinutes of 0.
fetchDataUncached(c, v) == querySPARQLWithCache(c, ViewQuery(v), 0)

\* fetchData up to its await: querySPARQLWithCache(sparqlQuery), with the
\* default cacheTimeMinutes
fetchData(c, v) ==
  querySPARQLWithCache(c, ViewQuery(v), DefaultCacheTimeMinutes)

\* The view v is rendered in place of whatever was mounted: a new instance
\* with its initial state, whose effect calls fetchData.  Calls of earlier
\* instances go on, but nothing awaits them any more.
Mount(v) ==
  /\ activeView' = v
  /\ rendered' = TRUE
  /\ data' = Arr(<<>>)
  /\ fields' = <<>>
  /\ loading' = TRUE
  /\ errorState' = <<>>
  /\ fallbackMode' = FALSE
  /\ dataOrigin' = "none"
  /\ IF v \in DataViews
       THEN \E c \in Calls :
              /\ fetchData(c, v)
              /\ live' = [d \in Calls |-> d = c]
       ELSE /\ live' = [d \in Calls |-> FALSE]
            /\ UNCHANGED cacheVars
            /\ UNCHANGED retryVars

InitApp ==
  /\ InitCache /\ InitRetry /\ InitNormIdle /\ InitClientIdle /\ InitAggIdle
  /\ InitAppIdle

\* The first render of App
FirstRender ==
  /\ ~rendered
  /\ Mount(activeView)

\* A click on one of the three buttons; a click on the active one changes
\* nothing.
setActiveView(v) ==
  /\ rendered
  /\ CallersResumed
  /\ v # activeView
  /\ Mount(v)

\* Time passes during the session.
AppTick(d) ==
  /\ rendered
  /\ CallersResumed
  /\ now + d <= MaxSessionMinutes * MsPerMinute
  /\ now' = now + d
  /\ UNCHANGED <<queryCache, origin, fetches, pc, cq, cttl, net, hit, ret>>
  /\ UNCHANGED retryVars

\* querySPARQLWithCache returns to fetchData, which runs to its end when
\* its view instance is still mounted; the state of an instance that is
\* gone is not updated.
AppReturn(c) ==
  /\ Return(c)
  /\ live' = [live EXCEPT ![c] = FALSE]
  /\ UNCHANGED <<activeView, rendered>>
  /\ IF ~live[c]
       THEN UNCHANGED <<data, fields, loading, errorState, fallbackMode,
                        dataOrigin>>
     ELSE IF activeView = "gender"
       THEN GenderContinuation(ret[c], origin[CacheKey(cq[c])])
       ELSE DiscoveriesContinuation(ret[c], origin[CacheKey(cq[c])])

FirstRenderStep == FirstRender /\ UNCHANGED <<normVars, clientVars, aggVars>>
SetActiveViewStep ==
  (\E v \in Views : setActiveView(v)) /\ UNCHANGED <<normVars, clientVars, aggVars>>
AppTickStep ==
  (\E d \in AppTickSteps : AppTick(d)) /\ UNCHANGED <<appVars, normVars, clientVars, aggVars>>
AppFetchStep ==
  /\ \E c \in Calls, head \in Heads, r \in RandSamples :
       FetchSettles(c, head, r)
  /\ UNCHANGED <<appVars, normVars, clientVars, aggVars>>
AppJsonStep ==
  /\ \E c \in Calls, body \in AppBodies, r \in RandSamples :
       JsonSettles(c, body, r)
  /\ UNCHANGED <<appVars, normVars, clientVars, aggVars>>
AppReturnStep == (\E c \in Calls : AppReturn(c)) /\ UNCHANGED <<normVars, clientVars, aggVars>>

NextApp ==
  \/ FirstRenderStep \/ SetActiveViewStep \/ AppTickStep
  \/ AppFetchStep \/ AppJsonStep \/ AppReturnStep

SpecApp == InitApp /\ [][NextApp]_vars

\* ------------------------------------------- the gender aggregation effect
MaxItems == 2             \* records in the data of GenderRepresentation

\* parseInt(n, 10) of a number that is not negative: its integer part
ParseInt(v) == v.num \div v.den

\* Property names of a bucket are texts like the query texts: "maleCount"
\* is one run, `other${genderLabel}Count` is "other", the label, "Count".
DecadeKey == <<"decade">>
TotalKey == <<"total">>
GenderKey(item) ==
  IF item.genderLabel = Str(<<"male">>) THEN <<"maleCount">>
  ELSE IF item.genderLabel = Str(<<"female">>) THEN <<"femaleCount">>
  ELSE <<"other">> \o item.genderLabel.items \o <<"Count">>

\* key.startsWith('other') && key.endsWith('Count')
IsOtherCount(key) ==
  Len(key) >= 2 /\ key[1] = "other" /\ key[Len(key)] = "Count"

\* `${key.slice(5, -5)}Percentage`
OtherPercentageKey(key) == SubSeq(key, 2, Len(key) - 1) \o <<"Percentage">>

\* obj[key] = value
Put(obj, key, value) ==
  [k \in DOMAIN obj \cup {key} |-> IF k = key THEN value ELSE obj[k]]

\* (count / total) * 100, as the fraction 100 * count / total
Percentage(count, total) == Num(100 * count.num, total.num)

\* The body of filteredData.forEach: the bucket of the item's decade gets
\* the item's count under its gender key, and the count added to its total.
AddItem(groupedByDecade, item) ==
  LET decadeStr == item.decade.num
      fresh == IF decadeStr \in DOMAIN groupedByDecade
                 THEN groupedByDecade[decadeStr]
                 ELSE [k \in {DecadeKey} |-> item.decade]
      counted == Put(fresh, GenderKey(item), Num(ParseInt(item.count), 1))
      zeroed == IF TotalKey \in DOMAIN counted /\ Truthy(counted[TotalKey])
                  THEN counted ELSE Put(counted, TotalKey, Num(0, 1))
      totalled == Put(zeroed, TotalKey,
                      Num(zeroed[TotalKey].num + ParseInt(item.count), 1))
  IN Put(groupedByDecade, decadeStr, totalled)

RECURSIVE Grouped(_)
Grouped(items) ==
  IF items = <<>> THEN << >>
  ELSE AddItem(Grouped(SubSeq(items, 1, Len(items) - 1)), items[Len(items)])

\* The percentages of one bucket
WithPercentages(bucket) ==
  LET total == bucket[TotalKey]
      has(k) == k \in DOMAIN bucket /\ Truthy(bucket[k]) /\ Truthy(total)
      others == {k \in DOMAIN bucket : IsOtherCount(k)}
      maleKeys == IF has(<<"maleCount">>)
                    THEN {<<"malePercentage">>} ELSE {}
      femaleKeys == IF has(<<"femaleCount">>)
                      THEN {<<"femalePercentage">>} ELSE {}
      added == [k \in maleKeys \cup femaleKeys
                        \cup {OtherPercentageKey(o) : o \in others} |->
                 IF k = <<"malePercentage">>
                   THEN Percentage(bucket[<<"maleCount">>], total)
                 ELSE IF k = <<"femalePercentage">>
                   THEN Percentage(bucket[<<"femaleCount">>], total)
                 ELSE Percentage(
                        bucket[CHOOSE o \in others : OtherPercentageKey(o) = k],
                        total)]
  IN [k \in DOMAIN bucket \cup DOMAIN added |->
        IF k \in DOMAIN added THEN added[k] ELSE bucket[k]]

\* The numbers of S in ascending order
RECURSIVE Ascending(_)
Ascending(S) ==
  IF S = {} THEN <<>>
  ELSE LET least == CHOOSE x \in S : \A y \in S : x <= y
       IN <<least>> \o Ascending(S \ {least})

\* The aggregation effect for a data that is not empty: filter by the
\* selected field, group by decade, add the percentages, sort by decade.
Aggregated(items, field) ==
  LET filteredData ==
        IF field = <<"all">> THEN items
        ELSE SelectSeq(items, LAMBDA item : item.fieldLabel = Str(field))
      groupedByDecade == Grouped(filteredData)
      order == Ascending(DOMAIN groupedByDecade)
  IN [i \in 1..Len(order) |-> WithPercentages(groupedByDecade[order[i]])]

\* useEffect(..., [data, selectedField]): nothing happens while data is
\* empty.
AggregationEffect(items, field) ==
  aggregatedData' =
    IF Len(items) = 0 THEN aggregatedData ELSE Aggregated(items, field)

\* The records of the data: counts of people per field, decade and gender.
AggFields == {<<"astronomer">>, <<"physicist">>}
AggItems ==
  {[fieldLabel |-> Str(f), decade |-> d, genderLabel |-> Str(g), count |-> n]
     : f \in AggFields,
       d \in {Num(1800, 1), Num(1850, 1)},
       g \in {<<"male">>, <<"female">>, <<"non-binary">>},
       n \in {Num(3, 1), Num(4, 1)}}
\* The query groups by field, decade and gender: no two records agree on
\* all three.
AggData ==
  {d \in UNION {[1..n -> AggItems] : n \in 0..MaxItems} :
     \A i, j \in 1..Len(d) :
       (/\ d[i].fieldLabel = d[j].fieldLabel
        /\ d[i].decade = d[j].decade
        /\ d[i].genderLabel = d[j].genderLabel) => i = j}

InitAgg ==
  /\ InitCache /\ InitRetry /\ InitNormIdle /\ InitClientIdle /\ InitAppIdle
  /\ InitAggIdle

\* fetchData's setData(processedData), and the effect it triggers
setData(processedData) ==
  /\ gdata = <<>>
  /\ gdata' = processedData
  /\ AggregationEffect(processedData, selectedField)
  /\ UNCHANGED selectedField

\* The field selector's onChange, and the effect it triggers; the options
\* are 'all' and the fields of the data.
setSelectedField(field) ==
  /\ field # selectedField
  /\ \/ field = <<"all">>
     \/ \E i \in 1..Len(gdata) : gdata[i].fieldLabel = Str(field)
  /\ selectedField' = field
  /\ AggregationEffect(gdata, field)
  /\ UNCHANGED gdata

SetDataStep ==
  /\ gdata = <<>>
  /\ \E d \in AggData : setData(d)
  /\ UNCHANGED <<cacheVars, retryVars, normVars, clientVars, appVars>>
SetSelectedFieldStep ==
  /\ \E f \in AggFields \cup {<<"all">>} : setSelectedField(f)
  /\ UNCHANGED <<cacheVars, retryVars, normVars, clientVars, appVars>>

NextAgg == SetDataStep \/ SetSelectedFieldStep

SpecAgg == InitAgg /\ [][NextAgg]_vars

\* =================================================================== claims
\* Steps of a call, as seen in a pair of states.
Starts(c) == pc[c] = "idle" /\ pc'[c] # "idle"
Completes(c) == pc[c] \in {"fetch", "json"} /\ pc'[c] = "done"
InFlight(c) == pc[c] \in {"fetch", "json"}

\* The age test of the cache, written out: the entry for key k is younger
\* than ttl minutes.
Younger(k, ttl) ==
  k \in DOMAIN queryCache /\ (now - queryCache[k].timestamp) < ttl * MsPerMinute

\* C1: a call for a query whose stored entry is younger than the ttl of the
\* call (ttl > 0) completes at once with the stored data and issues no
\* network request.
C1_FreshEntryServesWithoutFetch ==
  [][\A c \in Calls :
       (Starts(c) /\ cttl'[c] > 0 /\ Younger(cq'[c], cttl'[c]))
         => /\ pc'[c] = "done"
            /\ ret'[c] = Returned(queryCache[cq'[c]].data)
            /\ fetches' = fetches
            /\ queryCache' = queryCache]_vars

\* C1 witness: time has passed since the entry was stored, a later call for
\* the same query was served from it, and one request was issued in all.
C1_Witness ==
  \E c \in Calls :
    /\ pc[c] = "done" /\ hit[c]
    /\ cq[c] \in DOMAIN queryCache
    /\ now > queryCache[cq[c]].timestamp
    /\ ret[c] = Returned(queryCache[cq[c]].data)
    /\ fetches[cq[c]] = 1

\* C2: a call that finds the stored entry not younger than its ttl (every
\* call with ttl = 0 among them) issues one network request, and the call's
\* completion overwrites the entry with its result and the time of the
\* completion.
C2_StaleEntryRefetchedAndOverwritten ==
  [][\A c \in Calls :
       /\ (Starts(c) /\ cq'[c] \in DOMAIN queryCache
             /\ ~Younger(cq'[c], cttl'[c]))
            => /\ pc'[c] = "fetch"
               /\ fetches' = [fetches EXCEPT ![cq'[c]] = @ + 1]
       /\ Completes(c)
            => /\ ret'[c].kind = "return"
               /\ cq[c] \in DOMAIN queryCache'
               /\ queryCache'[cq[c]] =
                    [timestamp |-> now, data |-> ret'[c].value]]_vars

\* C2 witness: a second call with ttl = 0 found the entry of the first, went
\* to the network again and has overwritten the entry.
C2_Witness ==
  \E c \in Calls :
    /\ pc[c] = "done" /\ ~hit[c] /\ cttl[c] = 0
    /\ fetches[cq[c]] = 2
    /\ origin[cq[c]] = "network"
    /\ queryCache[cq[c]] = [timestamp |-> now, data |-> ret[c].value]

\* C3: the key is the query text as given: a call is served from the cache
\* only by the entry stored under its own text, a call whose text has no
\* entry issues its own request, and a completing call changes no entry
\* but the one under its own text.
C3_KeysAreVerbatim ==
  [][/\ \A c \in Calls :
          /\ (Starts(c) /\ pc'[c] = "done")
               => /\ cq'[c] \in DOMAIN queryCache
                  /\ ret'[c] = Returned(queryCache[cq'[c]].data)
          /\ (Starts(c) /\ cq'[c] \notin DOMAIN queryCache)
               => fetches' = [fetches EXCEPT ![cq'[c]] = @ + 1]
     /\ \A k \in (DOMAIN queryCache) \cup (DOMAIN queryCache') :
          (k \notin DOMAIN queryCache \/ k \notin DOMAIN queryCache'
             \/ queryCache'[k] # queryCache[k])
            => \E c \in Calls : Completes(c) /\ cq[c] = k]_vars

\* C3 witness: two texts that differ by one blank have an entry each, and a
\* request was issued for each.
C3_Witness ==
  /\ {QGender, QGenderWs} \subseteq DOMAIN queryCache
  /\ fetches[QGender] = 1 /\ fetches[QGenderWs] = 1

\* C4: a call that starts while another call for the same query is still in
\* flight, and finds no entry younger than its ttl, issues a request of its
\* own.
C4_NoCoalescing ==
  [][\A c \in Calls :
       (/\ Starts(c)
        /\ \E d \in Calls \ {c} : InFlight(d) /\ cq[d] = cq'[c]
        /\ ~Younger(cq'[c], cttl'[c]))
         => /\ pc'[c] = "fetch"
            /\ fetches' = [fetches EXCEPT ![cq'[c]] = @ + 1]]_vars

\* C4 witness: two calls for one query are in flight and two requests were
\* issued for it.
C4_Witness ==
  \E c, d \in Calls :
    /\ c # d /\ InFlight(c) /\ InFlight(d)
    /\ cq[c] = cq[d] /\ fetches[cq[c]] = 2

\* C5: whatever the network answers, a completed call has returned a
\* sequence of binding records and has not thrown.
C5_AlwaysReturnsSequence ==
  \A c \in Calls :
    pc[c] = "done" => ret[c].kind = "return" /\ ret[c].value.type = "array"

\* C6 as stated: after a non-success status the call has failed with the
\* error carrying the status code and the reason phrase.
C6_NonOkStatusFails ==
  \A c \in Calls :
    (pc[c] = "done" /\ net[c].settle = "response" /\ ~net[c].ok)
      => ret[c] = Thrown("Error",
                    QueryFailedMessage(net[c].status, net[c].statusText))

\* C6 amended: after a non-success status the try block has raised the error
\* carrying the status code and the reason phrase, and the call has
\* returned the mock data for its query.
C6_NonOkStatusReturnsMock ==
  \A c \in Calls :
    (pc[c] = "done" /\ net[c].settle = "response" /\ ~net[c].ok)
      => /\ TryBody(net[c]) =
              Thrown("Error",
                QueryFailedMessage(net[c].status, net[c].statusText))
         /\ \E r \in RandSamples :
              ret[c] = Returned(Arr(generateMockData(cq[c], r)))

\* C6 witness: a call answered with status 500 is complete, for a query that
\* has non-empty mock data.
C6_Witness ==
  \E c \in Calls :
    /\ pc[c] = "done" /\ net[c].settle = "response" /\ net[c].status = 500
    /\ ret[c].kind = "return" /\ Len(ret[c].value.items) > 0

\* C7: every entry of the cache holds what a successful request returned.
C7_EntriesFromSuccessOnly ==
  \A k \in DOMAIN queryCache : origin[k] = "network"

\* C8: a key that is in the cache stays in the cache.
C8_NeverEvicts ==
  [][\A k \in DOMAIN queryCache : k \in DOMAIN queryCache']_vars

\* C8 witness: the cache holds two keys, one of them stored a minute or more
\* ago (expired for every ttl in use) while the other was stored later.
C8_Witness ==
  \E k, j \in DOMAIN queryCache :
    /\ k # j
    /\ now - queryCache[k].timestamp >= MsPerMinute
    /\ queryCache[j].timestamp > queryCache[k].timestamp

\* C9: when the client fails with an error whose message lacks "429", the
\* wrapper has failed with that very error, having counted and waited only
\* for the rate-limit failures before it.
C9_OtherErrorsAreFatal ==
  (/\ rpc = "done" /\ outcomes # <<>>
   /\ plainClient(rnet).kind = "throw"
   /\ ~Includes(plainClient(rnet).error.message, <<"4", "2", "9">>))
    => /\ rret = plainClient(rnet)
       /\ outcomes[Len(outcomes)] = "other"
       /\ retries = Len(outcomes) - 1
       /\ Len(waits) = Len(outcomes) - 1

\* C9 witness: the first attempt failed with status 500 and the wrapper has
\* failed without a wait.
C9_Witness ==
  /\ rpc = "done" /\ rnet.status = 500
  /\ outcomes = <<"other">> /\ waits = <<>> /\ rret.kind = "throw"

\* C10: the wrapper makes at most maxRetries attempts, the i-th counted
\* failure is followed by a wait of 2^i seconds, and when every attempt
\* failed with "429" the wrapper ends with MaxRetriesExceeded after
\* maxRetries attempts.
C10_BoundedRetries ==
  /\ Len(outcomes) <= rmax
  /\ retries <= rmax
  /\ waits = [i \in 1..retries |-> 2 ^ i]
  /\ rpc \in {"attempt", "backoff"} => Len(outcomes) = retries
  /\ (rpc = "done" /\ \A i \in 1..Len(outcomes) : outcomes[i] = "429")
       => /\ rret = MaxRetriesExceeded
          /\ Len(outcomes) = rmax

\* C10 witness: three attempts failed with "429", the waits were 2, 4 and 8
\* seconds, and the wrapper has ended with MaxRetriesExceeded.
C10_Witness ==
  /\ rpc = "done" /\ rmax = 3
  /\ outcomes = <<"429", "429", "429">>
  /\ waits = <<2, 4, 8>>
  /\ rret = MaxRetriesExceeded

\* C11: a call that misses the cache issues one request and no more: the
\* request count changes only when a call starts, and then by one; a call
\* whose request has settled, whatever the answer, has left the await of
\* fetch with the count and the clock as they were; and no step of a cache
\* call touches the retry wrapper.
C11_OneRequestPerMiss ==
  [][/\ UNCHANGED <<rpc, rq, rmax, rnet, retries, outcomes, waits, rret>>
     /\ fetches' # fetches
          => \E c \in Calls :
               Starts(c) /\ fetches' = [fetches EXCEPT ![cq'[c]] = @ + 1]
     /\ \A c \in Calls :
          (pc[c] = "fetch" /\ net'[c] # net[c])
            => /\ pc'[c] \in {"json", "done"}
               /\ fetches' = fetches
               /\ now' = now]_vars

\* C11 witness: a call answered with status 429 is complete after one
\* request, and the retry wrapper has not run.
C11_Witness ==
  \E c \in Calls :
    /\ pc[c] = "done" /\ net[c].status = 429
    /\ fetches[cq[c]] = 1
    /\ rpc = "idle" /\ waits = <<>> /\ retries = 0

\* ------------------------------------------------------------ normalizer
NormDone == nout # NoResult
NormRowsIn == nin.items
NormRowsOut == nout.value.items

\* C12: given a sequence of binding records, processWikidataResults returns
\* a sequence of the same length, and every value of the i-th output record
\* is the value of the same variable in the i-th input record, as the
\* string it was or as the number it denotes.
C12_LengthAndOrderPreserved ==
  (NormDone /\ nin.type = "array")
    => /\ nout.kind = "return"
       /\ nout.value.type = "array"
       /\ Len(NormRowsOut) = Len(NormRowsIn)
       /\ \A i \in 1..Len(NormRowsIn) :
            \A k \in DOMAIN NormRowsOut[i] :
              /\ k \in DOMAIN NormRowsIn[i]
              /\ "value" \in DOMAIN NormRowsIn[i][k]
              /\ NormRowsOut[i][k] \in {Str(NormRowsIn[i][k].value),
                                        ToNumber(NormRowsIn[i][k].value)}

\* Two different records, the first of them empty after normalization, came
\* out as two different records in the same order.
C12_Witness ==
  /\ NormDone /\ nin.type = "array" /\ Len(NormRowsIn) = 2
  /\ NormRowsIn[1] = [k \in {"count"} |-> Null]
  /\ NormRowsIn[2] = [k \in {"count"} |-> [value |-> <<"4", "2">>]]
  /\ Len(NormRowsOut) = 2
  /\ DOMAIN NormRowsOut[1] = {}
  /\ NormRowsOut[2]["count"] = Num(42, 1)

\* C13: for the empty sequence and for every input that is no sequence
\* (null, undefined, an object, a string, a number) processWikidataResults
\* returns the empty sequence and raises no error.
C13_NonSequenceGivesEmpty ==
  (NormDone /\ (nin \in NonSequences \/ nin = Arr(<<>>)))
    => nout = Returned(Arr(<<>>))

C13_Witness == nin = Obj /\ nout = Returned(Arr(<<>>))

\* The string is a number in full: it is not blank and Number() of it is
\* not NaN.
FullyNumeric(s) == TrimEnd(TrimStart(s)) # <<>> /\ ~IsNaN(s)

\* C14: a defined string value is converted to a number exactly when it
\* fully parses as a number and its variable is not `id`; every other value
\* (the empty string and white space included) stays the original string.
C14_ConvertsExactlyNumericStrings ==
  (NormDone /\ nin.type = "array")
    => \A i \in 1..Len(NormRowsOut) :
         \A k \in DOMAIN NormRowsOut[i] :
           IF k # "id" /\ FullyNumeric(NormRowsIn[i][k].value)
             THEN NormRowsOut[i][k] = ToNumber(NormRowsIn[i][k].value)
             ELSE NormRowsOut[i][k] = Str(NormRowsIn[i][k].value)

\* C15: the keys of a normalized record are exactly the variables of the
\* input record whose cell is present, not null, and has a `value`.
C15_KeysAreTheValuedVariables ==
  (NormDone /\ nin.type = "array")
    => \A i \in 1..Len(NormRowsOut) :
         DOMAIN NormRowsOut[i] =
           {k \in NormKeys :
              /\ k \in DOMAIN NormRowsIn[i]
              /\ NormRowsIn[i][k] # Null
              /\ "value" \in DOMAIN NormRowsIn[i][k]}

\* A record with a null cell and a valued cell, and a record whose only
\* cell has no value, were normalized.
C15_Witness ==
  /\ NormDone /\ nin.type = "array" /\ Len(NormRowsIn) = 2
  /\ DOMAIN NormRowsIn[1] = {"count", "id"}
  /\ NormRowsIn[1]["count"] = Null
  /\ NormRowsIn[1]["id"] = [value |-> <<"Q", "5">>]
  /\ NormRowsIn[2] = [k \in {"count"} |-> NoValueCell]
  /\ DOMAIN NormRowsOut[1] = {"id"}
  /\ DOMAIN NormRowsOut[2] = {}

\* ------------------------------------------------------ fallback choice
\* The request failed: fetch rejected, the status was not ok, or the body
\* could not be read as JSON with a results member.
RequestFailed(resp) ==
  \/ resp.settle = "reject"
  \/ ~resp.ok
  \/ resp.body \in {"unparsable", "no_results"}

Mentions(query, word) ==
  \E i \in 1..Len(query) : query[i] = word

\* C16: when the request fails in any way, querySPARQL returns by the query
\* text alone: non-empty gender mock rows when the text contains "gender"
\* (also when it contains "discovery" too), otherwise non-empty discovery
\* mock rows when it contains "discovery", otherwise the empty sequence.
C16_FallbackChosenByQueryText ==
  (kret # NoResult /\ RequestFailed(knet))
    => /\ kret.kind = "return"
       /\ kret.value.type = "array"
       /\ LET rows == kret.value.items IN
          IF Mentions(kq, "gender")
            THEN /\ rows # <<>>
                 /\ \A i \in 1..Len(rows) : "genderLabel" \in DOMAIN rows[i]
          ELSE IF Mentions(kq, "discovery")
            THEN /\ rows # <<>>
                 /\ \A i \in 1..Len(rows) : "discoveryLabel" \in DOMAIN rows[i]
          ELSE rows = <<>>

\* A query naming both words, the discovery first, failed with status 500
\* and was answered with gender rows.
C16_Witness ==
  /\ kq = QBoth /\ knet.settle = "response" /\ knet.status = 500
  /\ kret.kind = "return" /\ kret.value.items # <<>>
  /\ "genderLabel" \in DOMAIN kret.value.items[1]

\* ------------------------------------------------------------- the views
\* The step mounts the view v: the first render, or a switch to v.
MountsView(v) ==
  /\ rendered' /\ activeView' = v
  /\ (~rendered \/ activeView # v)

\* The first fetch for the query has resolved: a request was made and none
\* is under way.
FetchResolved(q) ==
  /\ fetches[q] >= 1
  /\ \A c \in Calls : InFlight(c) => cq[c] # q

\* C17: every mount of a data view calls querySPARQLWithCache with the
\* fixed query text of the view and a ttl of 60 minutes, and nothing else
\* issues requests; a mount of a view whose stored entry is younger than 60
\* minutes, or whose first fetch has resolved in a session still shorter
\* than 60 minutes, issues no request.
C17_ReturningToAViewIssuesNoRequest ==
  [][/\ \A v \in DataViews :
          MountsView(v)
            => /\ \E c \in Calls :
                    /\ Starts(c)
                    /\ cq'[c] = ViewQuery(v)
                    /\ cttl'[c] = 60
               /\ Younger(ViewQuery(v), 60) => fetches' = fetches
               /\ (FetchResolved(ViewQuery(v)) /\ now < 60 * MsPerMinute)
                    => fetches' = fetches
     /\ fetches' # fetches => \E v \in DataViews : MountsView(v)
     /\ \A q \in AppQueries : fetches'[q] <= fetches[q] + 1]_vars

\* The gender view was fetched once, left for the discoveries view, and
\* mounted again less than 60 minutes later: no second request.
C17_Witness ==
  /\ activeView = "gender"
  /\ \E c \in Calls : live[c] /\ pc[c] = "done" /\ hit[c]
  /\ fetches[GenderQuery] = 1 /\ fetches[DiscoveriesQuery] = 1
  /\ now > 0 /\ now < 60 * MsPerMinute

\* C18: in the discoveries view, data that came from the mock fallback of
\* the client is shown with fallbackMode true, and data shown with
\* fallbackMode false came from a successful response.
C18_FallbackModeTracksDemoData ==
  activeView = "discoveries"
    => /\ dataOrigin = "fallback" => fallbackMode
       /\ (~fallbackMode /\ data.items # <<>>) => dataOrigin = "network"

\* ------------------------------------------------------------ aggregation
\* The sum of the per-gender counts of a bucket
RECURSIVE SumCounts(_, _)
SumCounts(bucket, keys) ==
  IF keys = {} THEN 0
  ELSE LET k == CHOOSE x \in keys : TRUE
       IN bucket[k].num + SumCounts(bucket, keys \ {k})

CountKeys(bucket) ==
  {k \in DOMAIN bucket :
     k \in {<<"maleCount">>, <<"femaleCount">>} \/ IsOtherCount(k)}

\* C19: in every bucket of the aggregated data, for a single field or for
\* all fields, the total is the sum of maleCount, femaleCount and every
\* other<gender>Count.
C19_TotalIsSumOfGenderCounts ==
  \A i \in 1..Len(aggregatedData) :
    aggregatedData[i][TotalKey].num
      = SumCounts(aggregatedData[i], CountKeys(aggregatedData[i]))

\* With one field selected the total of every bucket is the sum of its
\* per-gender counts.
C19_SingleFieldTotalIsSum ==
  selectedField # <<"all">> => C19_TotalIsSumOfGenderCounts

====
